---- MODULE Spec2Model ----
(***************************************************************************)
(* Model of the DNS-over-UDP query program (src/src/main.rs):              *)
(* DNSRequest (new, add_question, qdcount, to_buffer), DNSResponse (new,   *)
(* from_buffer) and the entry point main.                                  *)
(*                                                                         *)
(* Text is a sequence of Unicode code points, a buffer a sequence of       *)
(* octets (0..255).  Integers keep the width the code gives them.          *)
(***************************************************************************)
EXTENDS Integers, Sequences, FiniteSets, TLC

VARIABLES req, count, wire, stream, resp, decodeStatus, pc, steps, failedStep, buf, amt

vars == <<req, count, wire, stream, resp, decodeStatus, pc, steps, failedStep, buf, amt>>

(***************************************************************************)
(* Bounds of the model.                                                    *)
(***************************************************************************)
MaxQuestions == 2
MaxNameLen == 2
MaxStreamLen == 5
MaxReplyLen == 4
MaxCountAdds == 2
CountWindow == 40

(***************************************************************************)
(* Fixed-width arithmetic.                                                 *)
(***************************************************************************)
U8(n) == n % 256

U16(n) == n % 65536

Bit(n, i) == (n \div (2 ^ i)) % 2

RECURSIVE BitAndFrom(_, _, _)
BitAndFrom(a, b, i) ==
    IF i > 7 THEN 0
    ELSE Bit(a, i) * Bit(b, i) * (2 ^ i) + BitAndFrom(a, b, i + 1)

BitAnd(a, b) == BitAndFrom(a, b, 0)

RECURSIVE BitXorFrom(_, _, _)
BitXorFrom(a, b, i) ==
    IF i > 7 THEN 0
    ELSE ((Bit(a, i) + Bit(b, i)) % 2) * (2 ^ i) + BitXorFrom(a, b, i + 1)

BitXor(a, b) == BitXorFrom(a, b, 0)

Shl8(n, k) == U8(n * (2 ^ k))

(***************************************************************************)
(* Text: '.' is code point 46; str::len() is the UTF-8 byte length.        *)
(***************************************************************************)
Dot == 46

Utf8Len(c) == IF c < 128 THEN 1 ELSE IF c < 2048 THEN 2 ELSE IF c < 65536 THEN 3 ELSE 4

RECURSIVE StrLen(_)
StrLen(s) == IF s = <<>> THEN 0 ELSE Utf8Len(Head(s)) + StrLen(Tail(s))

RECURSIVE Split(_)
Split(s) ==
    IF \A i \in 1..Len(s) : s[i] # Dot THEN <<s>>
    ELSE LET k == CHOOSE i \in 1..Len(s) : s[i] = Dot /\ \A j \in 1..(i - 1) : s[j] # Dot
         IN  <<SubSeq(s, 1, k - 1)>> \o Split(SubSeq(s, k + 1, Len(s)))

RECURSIVE Flatten(_)
Flatten(ss) == IF ss = <<>> THEN <<>> ELSE Head(ss) \o Flatten(Tail(ss))

(***************************************************************************)
(* DNSRequest.                                                             *)
(***************************************************************************)
DefaultRequest ==
    [id |-> 0, qr |-> FALSE, opcode |-> 0, aa |-> FALSE, tc |-> FALSE, rd |-> FALSE,
     ra |-> FALSE, z |-> 0, rcode |-> 0, ancount |-> 0, nscount |-> 0, arcount |-> 0,
     names |-> <<>>]

NewRequest(id) ==
    [DefaultRequest EXCEPT !.id = id, !.rd = TRUE]

AddQuestionOp(r, name) == [r EXCEPT !.names = Append(r.names, Split(name))]

LenAsU16(n) == U16(n)

\* Faulty variant of qdcount: counts one question too many.
QdcountPlusOne(r) == LenAsU16(Len(r.names) + 1)

Qdcount(r) == LenAsU16(Len(r.names))

PutU16Le(v) == <<v % 256, (v \div 256) % 256>>

PutU16Be(v) == <<(v \div 256) % 256, v % 256>>

PackOctet1(r) ==
    LET b0 == Shl8(r.opcode, 3)
        b1 == IF r.qr THEN BitXor(b0, 128) ELSE b0
        b2 == IF r.aa THEN BitXor(b1, 4) ELSE b1
        b3 == IF r.tc THEN BitXor(b2, 2) ELSE b2
    IN  IF r.rd THEN BitXor(b3, 1) ELSE b3

PackOctet2(r) ==
    LET b0 == Shl8(r.z, 4)
        b1 == IF r.ra THEN BitXor(b0, 128) ELSE b0
    IN  BitXor(b1, BitAnd(r.rcode, 15))

PutHeader(r) ==
    PutU16Le(r.id) \o <<PackOctet1(r)>> \o <<PackOctet2(r)>>
        \o PutU16Be(Qdcount(r)) \o PutU16Be(r.ancount)
        \o PutU16Be(r.nscount) \o PutU16Be(r.arcount)

\* Faulty variant of the label write: the length octet counts itself.
PutPartLenPlusOne(part) == <<U8(StrLen(part) + 1)>> \o [i \in 1..Len(part) |-> U8(part[i])]

PutPart(part) == <<U8(StrLen(part))>> \o [i \in 1..Len(part) |-> U8(part[i])]

PutName(name) == Flatten([i \in 1..Len(name) |-> PutPart(name[i])]) \o <<0>>

\* Faulty variant of the question write: QCLASS is left out.
PutQuestionNoClass(name) == PutName(name) \o <<0, 1>>

PutQuestion(name) == PutName(name) \o <<0, 1>> \o <<0, 1>>

\* BytesMut::with_capacity(1024): a put past the capacity panics.
Capacity == 1024

ToBuffer(r) ==
    LET bytes == PutHeader(r) \o Flatten([i \in 1..Len(r.names) |-> PutQuestion(r.names[i])])
    IN  IF Len(bytes) <= Capacity
        THEN [status |-> "ok", bytes |-> bytes]
        ELSE [status |-> "panic", bytes |-> <<>>]

NoWire == [status |-> "none", bytes |-> <<>>]

(***************************************************************************)
(* The byte cursor handed to from_buffer (bytes::Buf): a read past the end *)
(* panics before anything is consumed by that read.                        *)
(***************************************************************************)
IntoBuf(bytes) == [bytes |-> bytes, pos |-> 0]

NoStream == IntoBuf(<<>>)

Remaining(s) == Len(s.bytes) - s.pos

GetU8(s) ==
    IF Remaining(s) < 1
    THEN [ok |-> FALSE, val |-> 0, s |-> s]
    ELSE [ok |-> TRUE, val |-> s.bytes[s.pos + 1], s |-> [s EXCEPT !.pos = s.pos + 1]]

GetU16Le(s) ==
    IF Remaining(s) < 2
    THEN [ok |-> FALSE, val |-> 0, s |-> s]
    ELSE [ok |-> TRUE, val |-> s.bytes[s.pos + 1] + 256 * s.bytes[s.pos + 2],
          s |-> [s EXCEPT !.pos = s.pos + 2]]

(***************************************************************************)
(* DNSResponse.                                                            *)
(***************************************************************************)
DefaultResponse ==
    [id |-> 0, qr |-> FALSE, opcode |-> 0, aa |-> FALSE, tc |-> FALSE, rd |-> FALSE,
     ra |-> FALSE, z |-> 0, rcode |-> 0, ancount |-> 0, nscount |-> 0, arcount |-> 0]

NewResponse(id) ==
    [DefaultResponse EXCEPT !.id = id, !.rd = TRUE]

UnpackOctet1(r, byte) ==
    [r EXCEPT !.qr = BitAnd(byte, 128) > 0,
              !.opcode = BitAnd(byte, 120),
              !.aa = BitAnd(byte, 4) > 0,
              !.tc = BitAnd(byte, 2) > 0,
              !.rd = BitAnd(byte, 1) > 0]

UnpackOctet2(r, byte) ==
    [r EXCEPT !.ra = BitAnd(byte, 128) > 0,
              !.z = BitAnd(byte, 112),
              !.rcode = BitAnd(byte, 15)]

\* Faulty variant of from_buffer: reads on into the counts (ancount) and fails
\* as a whole when the bytes run out.
FromBufferWithCounts(r, s) ==
    LET g1 == GetU16Le(s)
        g2 == GetU8(g1.s)
        g3 == GetU8(g2.s)
        g4 == GetU16Le(g3.s)
        r3 == UnpackOctet2(UnpackOctet1([r EXCEPT !.id = g1.val], g2.val), g3.val)
    IN  IF g1.ok /\ g2.ok /\ g3.ok /\ g4.ok
        THEN [status |-> "ok", resp |-> [r3 EXCEPT !.ancount = g4.val], stream |-> g4.s]
        ELSE [status |-> "panic", resp |-> r, stream |-> s]

FromBufferOp(r, s) ==
    LET g1 == GetU16Le(s)
        r1 == [r EXCEPT !.id = g1.val]
        g2 == GetU8(g1.s)
        r2 == UnpackOctet1(r1, g2.val)
        g3 == GetU8(g2.s)
        r3 == UnpackOctet2(r2, g3.val)
    IN  IF ~g1.ok THEN [status |-> "panic", resp |-> r, stream |-> s]
        ELSE IF ~g2.ok THEN [status |-> "panic", resp |-> r1, stream |-> g1.s]
        ELSE IF ~g3.ok THEN [status |-> "panic", resp |-> r2, stream |-> g2.s]
        ELSE [status |-> "ok", resp |-> r3, stream |-> g3.s]

(***************************************************************************)
(* Inputs.                                                                 *)
(***************************************************************************)
IdSamples == {0, 4660, 65535}

Alphabet == {Dot, 119, 256}

RECURSIVE StringsUpTo(_, _)
StringsUpTo(A, n) ==
    IF n = 0 THEN {<<>>}
    ELSE LET S == StringsUpTo(A, n - 1)
         IN  S \cup {Append(s, c) : s \in S, c \in A}

WwwWpPl == <<119, 119, 119, 46, 119, 112, 46, 112, 108>>

WwwVaticanVa == <<119, 119, 119, 46, 118, 97, 116, 105, 99, 97, 110, 46, 118, 97>>

Names == StringsUpTo(Alphabet, MaxNameLen) \cup {WwwWpPl, WwwVaticanVa}

ByteSamples == {0, 52, 129, 255}

Streams == StringsUpTo(ByteSamples, MaxStreamLen)

ReplyBytes == {0, 129, 255}

Replies == StringsUpTo(ReplyBytes, MaxReplyLen)

AllFlagRequests ==
    {[NewRequest(4660) EXCEPT !.qr = qr, !.opcode = opcode, !.aa = aa, !.tc = tc, !.rd = rd,
                              !.ra = ra, !.z = z, !.rcode = rcode] :
        qr \in BOOLEAN, opcode \in 0..15, aa \in BOOLEAN, tc \in BOOLEAN, rd \in BOOLEAN,
        ra \in BOOLEAN, z \in 0..7, rcode \in 0..15}

(***************************************************************************)
(* Spec: a request is constructed, questions are added, it is serialized   *)
(* (main, lines 291-299, with any names).                                  *)
(***************************************************************************)
NoMain ==
    /\ pc = "lib"
    /\ steps = <<>>
    /\ failedStep = "none"
    /\ buf = <<>>
    /\ amt = 0

NoDecode ==
    /\ stream = NoStream
    /\ resp = DefaultResponse
    /\ decodeStatus = "none"

Init ==
    /\ req \in {NewRequest(id) : id \in IdSamples}
    /\ count = 0
    /\ wire = NoWire
    /\ NoDecode
    /\ NoMain

\* main adds its questions before it serializes (lines 295-299): no question
\* is added once the buffer is built.
AddQuestion ==
    /\ wire.status = "none"
    /\ Len(req.names) < MaxQuestions
    /\ \E name \in Names : req' = AddQuestionOp(req, name)
    /\ count' = count + 1
    /\ UNCHANGED <<wire, stream, resp, decodeStatus, pc, steps, failedStep, buf, amt>>

Serialize ==
    /\ wire.status = "none"
    /\ wire' = ToBuffer(req)
    /\ UNCHANGED <<req, count, stream, resp, decodeStatus, pc, steps, failedStep, buf, amt>>

Next == AddQuestion \/ Serialize

Spec == Init /\ [][Next]_vars

(***************************************************************************)
(* SpecCodec: a request with any flag values is serialized and the buffer  *)
(* is handed to from_buffer.                                               *)
(***************************************************************************)
InitCodec ==
    /\ req \in AllFlagRequests
    /\ count = 0
    /\ wire = NoWire
    /\ stream = NoStream
    /\ resp = NewResponse(0)
    /\ decodeStatus = "none"
    /\ NoMain

Loopback ==
    /\ wire.status = "ok"
    /\ decodeStatus = "none"
    /\ LET d == FromBufferOp(resp, IntoBuf(wire.bytes))
       IN  /\ resp' = d.resp
           /\ stream' = d.stream
           /\ decodeStatus' = d.status
    /\ UNCHANGED <<req, count, wire, pc, steps, failedStep, buf, amt>>

NextCodec == Serialize \/ Loopback

SpecCodec == InitCodec /\ [][NextCodec]_vars

(***************************************************************************)
(* SpecDecode: from_buffer on a fresh DNSResponse and a cursor with any    *)
(* bytes, at any position.                                                 *)
(***************************************************************************)
InitDecode ==
    /\ req = DefaultRequest
    /\ count = 0
    /\ wire = NoWire
    /\ stream \in {[bytes |-> b, pos |-> p] : b \in Streams, p \in 0..MaxStreamLen}
    /\ stream.pos <= Len(stream.bytes)
    /\ resp \in {NewResponse(id) : id \in IdSamples}
    /\ decodeStatus = "none"
    /\ NoMain

FromBuffer ==
    /\ decodeStatus = "none"
    /\ LET d == FromBufferOp(resp, stream)
       IN  /\ resp' = d.resp
           /\ stream' = d.stream
           /\ decodeStatus' = d.status
    /\ UNCHANGED <<req, count, wire, pc, steps, failedStep, buf, amt>>

NextDecode == FromBuffer

SpecDecode == InitDecode /\ [][NextDecode]_vars

(***************************************************************************)
(* SpecCount: add_question and qdcount on requests that hold up to and     *)
(* past 2^16 questions.  Only names.len() is kept (count): the 2^16        *)
(* elements of names are not written out, req.names stays empty here.      *)
(***************************************************************************)
InitCount ==
    /\ req \in {NewRequest(id) : id \in IdSamples}
    /\ count \in (0..CountWindow) \cup ((65536 - CountWindow)..65535)
    /\ wire = NoWire
    /\ NoDecode
    /\ NoMain

PushQuestion ==
    /\ count < 65536 + MaxCountAdds
    /\ count' = count + 1
    /\ UNCHANGED <<req, wire, stream, resp, decodeStatus, pc, steps, failedStep, buf, amt>>

NextCount == PushQuestion

SpecCount == InitCount /\ [][NextCount]_vars

(***************************************************************************)
(* SpecMain: the entry point main, one action per call it makes.           *)
(***************************************************************************)
RecvBufSize == 2048

Zeros(n) == [i \in 1..n |-> 0]

InitMain ==
    /\ req = DefaultRequest
    /\ count = 0
    /\ wire = NoWire
    /\ NoDecode
    /\ pc = "new"
    /\ steps = <<>>
    /\ failedStep = "none"
    /\ buf = <<>>
    /\ amt = 0

MainNew ==
    /\ pc = "new"
    /\ req' \in {NewRequest(id) : id \in IdSamples}
    /\ count' = 0
    /\ pc' = "add1"
    /\ steps' = Append(steps, "new")
    /\ UNCHANGED <<wire, stream, resp, decodeStatus, failedStep, buf, amt>>

MainAdd1 ==
    /\ pc = "add1"
    /\ req' = AddQuestionOp(req, WwwWpPl)
    /\ count' = count + 1
    /\ pc' = "add2"
    /\ steps' = Append(steps, "add_question")
    /\ UNCHANGED <<wire, stream, resp, decodeStatus, failedStep, buf, amt>>

MainAdd2 ==
    /\ pc = "add2"
    /\ req' = AddQuestionOp(req, WwwVaticanVa)
    /\ count' = count + 1
    /\ pc' = "to_buffer"
    /\ steps' = Append(steps, "add_question")
    /\ UNCHANGED <<wire, stream, resp, decodeStatus, failedStep, buf, amt>>

MainToBuffer ==
    /\ pc = "to_buffer"
    /\ wire' = ToBuffer(req)
    /\ steps' = Append(steps, "to_buffer")
    /\ IF wire'.status = "ok"
       THEN pc' = "bind" /\ UNCHANGED failedStep
       ELSE pc' = "aborted" /\ failedStep' = "to_buffer"
    /\ UNCHANGED <<req, count, stream, resp, decodeStatus, buf, amt>>

MainBind ==
    /\ pc = "bind"
    /\ steps' = Append(steps, "bind")
    /\ \E ok \in BOOLEAN :
          IF ok THEN pc' = "send_to" /\ UNCHANGED failedStep
          ELSE pc' = "aborted" /\ failedStep' = "bind"
    /\ UNCHANGED <<req, count, wire, stream, resp, decodeStatus, buf, amt>>

\* Faulty variant of the send: the result of send_to is not checked.
MainSendToUnchecked ==
    /\ pc = "send_to"
    /\ steps' = Append(steps, "send_to")
    /\ \E ok \in BOOLEAN :
          IF ok THEN pc' = "recv_from" /\ UNCHANGED failedStep
          ELSE pc' = "recv_from" /\ failedStep' = "send_to"
    /\ UNCHANGED <<req, count, wire, stream, resp, decodeStatus, buf, amt>>

MainSendTo ==
    /\ pc = "send_to"
    /\ steps' = Append(steps, "send_to")
    /\ \E ok \in BOOLEAN :
          IF ok THEN pc' = "recv_from" /\ UNCHANGED failedStep
          ELSE pc' = "aborted" /\ failedStep' = "send_to"
    /\ UNCHANGED <<req, count, wire, stream, resp, decodeStatus, buf, amt>>

MainRecvFrom ==
    /\ pc = "recv_from"
    /\ steps' = Append(steps, "recv_from")
    /\ \/ \E data \in Replies :
             /\ amt' = IF Len(data) < RecvBufSize THEN Len(data) ELSE RecvBufSize
             /\ buf' = [i \in 1..RecvBufSize |-> IF i <= Len(data) THEN data[i] ELSE 0]
             /\ pc' = "from_buffer"
             /\ UNCHANGED failedStep
       \/ /\ buf' = Zeros(RecvBufSize)
          /\ pc' = "aborted"
          /\ failedStep' = "recv_from"
          /\ UNCHANGED amt
    /\ UNCHANGED <<req, count, wire, stream, resp, decodeStatus>>

\* Faulty variant of the decode: only the amt received bytes are handed over.
MainFromBufferReceivedOnly ==
    /\ pc = "from_buffer"
    /\ steps' = Append(steps, "from_buffer")
    /\ \E id \in IdSamples :
          LET d == FromBufferOp(NewResponse(id), IntoBuf(SubSeq(buf, 1, amt)))
          IN  /\ resp' = d.resp
              /\ stream' = d.stream
              /\ decodeStatus' = d.status
              /\ IF d.status = "ok"
                 THEN pc' = "done" /\ UNCHANGED failedStep
                 ELSE pc' = "aborted" /\ failedStep' = "from_buffer"
    /\ UNCHANGED <<req, count, wire, buf, amt>>

MainFromBuffer ==
    /\ pc = "from_buffer"
    /\ steps' = Append(steps, "from_buffer")
    /\ \E id \in IdSamples :
          LET d == FromBufferOp(NewResponse(id), IntoBuf(buf))
          IN  /\ resp' = d.resp
              /\ stream' = d.stream
              /\ decodeStatus' = d.status
              /\ IF d.status = "ok"
                 THEN pc' = "done" /\ UNCHANGED failedStep
                 ELSE pc' = "aborted" /\ failedStep' = "from_buffer"
    /\ UNCHANGED <<req, count, wire, buf, amt>>

NextMain ==
    \/ MainNew
    \/ MainAdd1
    \/ MainAdd2
    \/ MainToBuffer
    \/ MainBind
    \/ MainSendTo
    \/ MainRecvFrom
    \/ MainFromBuffer

SpecMain == InitMain /\ [][NextMain]_vars

(***************************************************************************)
(* Properties.                                                             *)
(***************************************************************************)
FlagsOf(r) == <<r.qr, r.opcode, r.aa, r.tc, r.rd, r.ra, r.z, r.rcode>>

\* C1: unpacking (from_buffer) the two flag octets that to_buffer packed
\* yields the same qr, opcode, aa, tc, rd, ra, z and rcode, for every flag set.
C1_FlagsRoundTrip ==
    (wire.status = "ok" /\ decodeStatus = "ok" /\ stream.bytes = wire.bytes)
        => FlagsOf(resp) = FlagsOf(req)

QuestionSection(bytes) == SubSeq(bytes, 13, Len(bytes))

OnlyWwwWpPlAdded ==
    /\ wire.status = "ok"
    /\ req.names = << <<<<119, 119, 119>>, <<119, 112>>, <<112, 108>>>> >>

\* C2 (as stated): after the single question "www.wp.pl" the question section
\* is 4,"www",2,"wp",2,"pl",0,0,1,0,1, which is 11 bytes, and the message is
\* 23 bytes long.
C2_WwwWpPlAsStated ==
    OnlyWwwWpPlAdded =>
        /\ QuestionSection(wire.bytes)
             = <<4, 119, 119, 119, 2, 119, 112, 2, 112, 108, 0, 0, 1, 0, 1>>
        /\ Len(QuestionSection(wire.bytes)) = 11
        /\ Len(wire.bytes) = 23

\* C2 (amended): after the single question "www.wp.pl" the question section is
\* 3,"www",2,"wp",2,"pl",0,0,1,0,1, which is 15 bytes (11 for the name, 4 for
\* QTYPE and QCLASS), and the message is 27 bytes long.
C2_WwwWpPlSection ==
    OnlyWwwWpPlAdded =>
        /\ QuestionSection(wire.bytes)
             = <<3, 119, 119, 119, 2, 119, 112, 2, 112, 108, 0, 0, 1, 0, 1>>
        /\ Len(QuestionSection(wire.bytes)) = 15
        /\ Len(wire.bytes) = 27

C2_Witness == OnlyWwwWpPlAdded /\ Len(wire.bytes) > 12

\* The length of NameEncoder.encode as the specification words it: for every
\* label one length octet and one octet per character, then one zero octet.
RECURSIVE EncodedNameLength(_)
EncodedNameLength(labels) ==
    IF labels = <<>> THEN 1 ELSE 1 + Len(Head(labels)) + EncodedNameLength(Tail(labels))

RECURSIVE SumOverQuestions(_, _)
SumOverQuestions(names, extra) ==
    IF names = <<>> THEN 0
    ELSE EncodedNameLength(Head(names)) + extra + SumOverQuestions(Tail(names), extra)

\* C3 (as stated): the serialized buffer is 12 + sum over the questions of
\* (encoded-name-length + 5) bytes long.
C3_LengthAsStated ==
    wire.status = "ok" => Len(wire.bytes) = 12 + SumOverQuestions(req.names, 5)

\* C3 (amended): the serialized buffer is 12 + sum over the questions of
\* (encoded-name-length + 4) bytes long: the name, 2 bytes QTYPE, 2 bytes QCLASS.
C3_BufferLength ==
    wire.status = "ok" => Len(wire.bytes) = 12 + SumOverQuestions(req.names, 4)

C3_Witness ==
    /\ wire.status = "ok"
    /\ Len(req.names) >= 2
    /\ \E i \in 1..Len(req.names) : Len(req.names[i]) >= 2
    /\ \E i \in 1..Len(req.names) : \E j \in 1..Len(req.names[i]) :
          \E k \in 1..Len(req.names[i][j]) : req.names[i][j][k] > 255

\* C4: a request without questions serializes to exactly 12 bytes, bytes 4-5
\* (QDCOUNT) and bytes 6-11 (ANCOUNT, NSCOUNT, ARCOUNT) all zero, whatever the id.
C4_EmptyMessage ==
    (wire.status = "ok" /\ req.names = <<>>) =>
        /\ Len(wire.bytes) = 12
        /\ \A i \in 5..12 : wire.bytes[i] = 0

C4_Witness == wire.status = "ok" /\ req.names = <<>> /\ req.id = 4660

\* C5: questionCount() equals the number of questions added, also past 65535.
C5_QuestionCountEqualsAdded == LenAsU16(count) = count

DecodeStep == decodeStatus = "none" /\ decodeStatus' # "none"

\* C6: from_buffer on a cursor with fewer than 4 remaining bytes fails, and on
\* that failure no field of the response is modified and no byte is consumed.
C6_UnderrunLeavesNoTrace ==
    [][(DecodeStep /\ Remaining(stream) < 4)
          => (decodeStatus' = "panic" /\ resp' = resp /\ stream' = stream)]_vars

\* C7: from_buffer on a cursor with at least 4 remaining bytes succeeds, advances
\* the cursor by exactly 4, leaves ancount, nscount and arcount at zero, and
\* every decoded field is a function of those 4 bytes alone.
C7_DecodeConsumesFour ==
    [][(DecodeStep /\ Remaining(stream) >= 4) =>
          LET b1 == stream.bytes[stream.pos + 1]
              b2 == stream.bytes[stream.pos + 2]
              b3 == stream.bytes[stream.pos + 3]
              b4 == stream.bytes[stream.pos + 4]
          IN  /\ decodeStatus' = "ok"
              /\ stream'.pos = stream.pos + 4
              /\ stream'.bytes = stream.bytes
              /\ resp'.ancount = 0 /\ resp'.nscount = 0 /\ resp'.arcount = 0
              /\ resp'.id = b1 + 256 * b2
              /\ resp'.qr = (b3 >= 128)
              /\ resp'.opcode = ((b3 \div 8) % 16) * 8
              /\ resp'.aa = ((b3 \div 4) % 2 = 1)
              /\ resp'.tc = ((b3 \div 2) % 2 = 1)
              /\ resp'.rd = (b3 % 2 = 1)
              /\ resp'.ra = (b4 >= 128)
              /\ resp'.z = ((b4 \div 16) % 8) * 16
              /\ resp'.rcode = b4 % 16]_vars

C7_Witness ==
    /\ decodeStatus = "ok"
    /\ stream.pos = 4
    /\ Remaining(stream) > 0
    /\ stream.bytes[5] # 0
    /\ resp.id = 52 + 256 * 129

\* The label walk of a wire-format name: the position of the first zero length
\* octet met from position p, 0 when the bytes end first.
RECURSIVE FirstZeroLength(_, _)
FirstZeroLength(bytes, p) ==
    IF p > Len(bytes) THEN 0
    ELSE IF bytes[p] = 0 THEN p
    ELSE FirstZeroLength(bytes, p + 1 + bytes[p])

RECURSIVE NameOffset(_, _)
NameOffset(names, i) ==
    IF i = 1 THEN 12 ELSE NameOffset(names, i - 1) + Len(PutQuestion(names[i - 1]))

NameBytes(i) ==
    SubSeq(wire.bytes, NameOffset(req.names, i) + 1,
           NameOffset(req.names, i + 1) - 4)

\* C8: every name's wire encoding ends with exactly one zero-length label octet:
\* the end-of-name octet is the only zero length octet of the encoding.
C8_SingleZeroLabel ==
    wire.status = "ok" =>
        \A i \in 1..Len(req.names) :
            FirstZeroLength(NameBytes(i), 1) = Len(NameBytes(i))

MainOrder ==
    <<"new", "add_question", "add_question", "to_buffer", "bind", "send_to",
      "recv_from", "from_buffer">>

Fallible == {"bind", "send_to", "recv_from"}

\* C9: main runs construct, add questions, serialize, bind, send, receive,
\* decode in this order, each at most once; decode runs only after send and
\* receive succeeded; a failed bind, send or receive ends the run at that step.
C9_MainOrder ==
    /\ Len(steps) <= Len(MainOrder)
    /\ steps = SubSeq(MainOrder, 1, Len(steps))
    /\ (decodeStatus # "none" \/ resp # DefaultResponse) =>
          (steps = MainOrder /\ failedStep \notin Fallible)
    /\ failedStep # "none" =>
          (pc = "aborted" /\ steps # <<>> /\ steps[Len(steps)] = failedStep)
    /\ (pc = "aborted") = (failedStep # "none")

C9_Witness ==
    /\ pc = "aborted"
    /\ failedStep = "recv_from"
    /\ steps = SubSeq(MainOrder, 1, 7)
    /\ resp = DefaultResponse

HeaderByte(i) == IF i <= amt THEN buf[i] ELSE 0

\* C10: main decodes the whole 2048-byte zero-initialised receive buffer: for
\* every reply length decode never fails, and header bytes the reply did not
\* bring are decoded as zero.
C10_DecodeWholeBuffer ==
    /\ decodeStatus # "panic"
    /\ failedStep # "from_buffer"
    /\ pc = "done" =>
          /\ decodeStatus = "ok"
          /\ stream.bytes = buf
          /\ Len(buf) = RecvBufSize
          /\ stream.pos = 4
          /\ resp.id = HeaderByte(1) + 256 * HeaderByte(2)
          /\ resp.qr = (HeaderByte(3) >= 128)
          /\ resp.opcode = ((HeaderByte(3) \div 8) % 16) * 8
          /\ resp.aa = ((HeaderByte(3) \div 4) % 2 = 1)
          /\ resp.tc = ((HeaderByte(3) \div 2) % 2 = 1)
          /\ resp.rd = (HeaderByte(3) % 2 = 1)
          /\ resp.ra = (HeaderByte(4) >= 128)
          /\ resp.z = ((HeaderByte(4) \div 16) % 8) * 16
          /\ resp.rcode = HeaderByte(4) % 16

C10_Witness ==
    /\ pc = "done"
    /\ amt = 3
    /\ buf[1] = 255 /\ buf[3] = 129
    /\ resp.id = 255 + 256 * buf[2]
    /\ resp.ra = FALSE

====
